---- MODULE Spec2Model ----
(***************************************************************************)
(* STAR-TH statistical engine: the validator and design inspector of       *)
(* modules/data_manager.py and the RCBD / CRD analysis of modules/anova.py. *)
(*                                                                         *)
(* A DataFrame is modelled column-major, as pandas stores it: a list of    *)
(* column labels, one dtype per column, one vector of cells per column and *)
(* the length of the index.  Every engine function is an operator over     *)
(* that record; an action applies one function to the inputs drawn by the  *)
(* initial predicate and stores what the call returned or raised in ret.   *)
(***************************************************************************)
EXTENDS Integers, Sequences, FiniteSets, TLC

VARIABLES df, treatment_col, rep_col, response_col, alpha, called, ret,
          cv_arg, mse_arg, num_reps_arg, residual_df_arg,
          session, page, uploaded_file, selected, shown

\* the arguments cv of get_cv_quality and mse, num_reps, residual_df of
\* calculate_lsd
scalars == <<cv_arg, mse_arg, num_reps_arg, residual_df_arg>>

\* the application of app.py: st.session_state, the page chosen in the
\* sidebar, the file held by the uploader, the columns chosen in the three
\* select boxes and what the body of the page shows
app == <<session, page, uploaded_file, selected, shown>>

vars == <<df, treatment_col, rep_col, response_col, alpha, called, ret, scalars, app>>

(***************************************************************************)
(* Bounds of the explored inputs.                                          *)
(***************************************************************************)
\* rows of the tables given to validate_rcbd_data
MaxRowsV == 2
\* rows of the tables given to get_design_info
MaxRowsD == 5
\* rows of the tables given to run_rcbd_anova
MaxRowsA == 5
\* largest response of the complete designs
MaxResponseC == 2
\* largest response of the tables of the field-name checks
MaxResponseF == 1
\* largest response of the tables given to sequences of engine calls
MaxResponseE == 1
\* largest response of the tables with missing labels
MaxResponseG == 1
\* largest response of the uploaded files
MaxResponseS == 1
\* largest CV, in percent, given to get_cv_quality
MaxCv == 25
\* largest mean square (in halves), replications and residual degrees of
\* freedom given to calculate_lsd
MaxMseL == 3
MaxRepsL == 3
MaxDfL == 3

(***************************************************************************)
(* Cells, dtypes and frames.                                               *)
(***************************************************************************)
\* a missing value (NaN / None)
NULL == <<"null", 0>>
\* a number
Num(n) == <<"num", n>>
\* a piece of text that spells the number n, such as "45"
Txt(n) == <<"txt", n>>
\* a piece of text that spells no number, such as "V1"
Str(n) == <<"str", n>>

Range(s) == {s[i] : i \in DOMAIN s}

Dtypes == {"int64", "float64", "object"}

\* the cells a column of each dtype can hold
CellsOfDtype(dt, nums) ==
    CASE dt = "int64"   -> {Num(v) : v \in nums}
      [] dt = "float64" -> {Num(v) : v \in nums} \cup {NULL}
      [] OTHER          -> {Str(1), Txt(1), NULL}

\* pandas.api.types.is_numeric_dtype as the claimed validator would need it:
\* a column counts as numeric when every value can be coerced to a number
IsNumericDtypeCoercing(dt, column) ==
    \/ dt \in {"int64", "float64"}
    \/ \A i \in DOMAIN column : column[i][1] \in {"num", "txt", "null"}

\* pandas.api.types.is_numeric_dtype(df[col]): decided by the dtype alone
IsNumericDtype(dt, column) == dt \in {"int64", "float64"}

Frame(columns, dtypes, data, nrows) ==
    [columns |-> columns, dtypes |-> dtypes, data |-> data, nrows |-> nrows]

\* positions of the columns labelled col
Positions(frame, col) == {i \in DOMAIN frame.columns : frame.columns[i] = col}

\* col in df.columns
HasColumn(frame, col) == Positions(frame, col) # {}

\* df[col] is a DataFrame, not a Series, when the label is repeated
IsRepeated(frame, col) == Cardinality(Positions(frame, col)) > 1

\* the position of the one column labelled col
Pos(frame, col) == CHOOSE i \in Positions(frame, col) : TRUE

\* df[col] for a label that occurs once
Column(frame, col) == frame.data[Pos(frame, col)]

DtypeOf(frame, col) == frame.dtypes[Pos(frame, col)]

\* df[col].isnull().sum()
NullCount(frame, col) ==
    Cardinality({i \in DOMAIN Column(frame, col) : Column(frame, col)[i] = NULL})

\* df[col].nunique(): distinct values, missing values left out
NUnique(frame, col) == Cardinality(Range(Column(frame, col)) \ {NULL})

\* the numbers of a numeric column without its missing values
DropNa(column) ==
    LET kept == SelectSeq(column, LAMBDA c : c # NULL)
    IN [i \in 1..Len(kept) |-> kept[i][2]]

\* the table of the rows numbered by rows, in that order
TakeRows(frame, rows) ==
    Frame(frame.columns, frame.dtypes,
          [c \in DOMAIN frame.data |-> [k \in 1..Len(rows) |-> frame.data[c][rows[k]]]],
          Len(rows))

\* the rows that have a value in each of the columns cols
RowsWithValues(frame, cols) ==
    SelectSeq([i \in 1..frame.nrows |-> i],
              LAMBDA i : \A c \in Range(cols) : Column(frame, c)[i] # NULL)

\* the rows patsy keeps for a formula over the columns cols: those without
\* a missing value in any of them
CompleteCases(frame, cols) ==
    IF \A c \in Range(cols) : NullCount(frame, c) = 0 THEN frame
    ELSE TakeRows(frame, RowsWithValues(frame, cols))

(***************************************************************************)
(* Outcomes of a call.                                                     *)
(***************************************************************************)
Return(v) == [kind |-> "return", value |-> v]
Raise(e) == [kind |-> "raise", value |-> e]
\* an exception: its class, the field names its message carries and the
\* step of the function that raised it
Error(class, names, step) == [type |-> class, names |-> names, at |-> step]
NoCall == [kind |-> "none", value |-> <<>>]

\* the scalar arguments while the specification draws a table: a zero
\* CV and a zero mean square with one replication and one residual df
NoScalars ==
    /\ cv_arg = [kind |-> "num", sign |-> 0, sq |-> <<0, 1>>]
    /\ mse_arg = <<0, 1>>
    /\ num_reps_arg = 1
    /\ residual_df_arg = 1

\* Python's None where a field name is expected
None == "None"

\* st.session_state after the initialisation of app.py: every key is None.
\* A table or a result that may be None is a list of at most one element.
NoSession ==
    [df |-> <<>>, anova_results |-> <<>>, means_table |-> <<>>,
     treatment_col |-> None, replication_col |-> None, response_col |-> None]

\* the application while the specification calls the engine directly: a
\* fresh session on the home page, no file and no select box
NoApp ==
    /\ session = NoSession
    /\ page = "home"
    /\ uploaded_file = <<>>
    /\ selected = <<>>
    /\ shown = "home"

(***************************************************************************)
(* validate_rcbd_data                                                      *)
(***************************************************************************)
\* the lines of the message, one per recorded defect
MissingLine(col) == <<"missing", col, 0>>
NullLine(col, n) == <<"null", col, n>>
NonNumericLine(col) == <<"nonnumeric", col, 0>>
SuccessLine == <<"valid", "", 0>>

\* the three field names in the order the loops visit them
Fields(t, r, y) == <<t, r, y>>

RECURSIVE MissingLines(_, _)
MissingLines(frame, cols) ==
    IF cols = <<>> THEN <<>>
    ELSE (IF HasColumn(frame, Head(cols)) THEN <<>> ELSE <<MissingLine(Head(cols))>>)
         \o MissingLines(frame, Tail(cols))

RECURSIVE NullLines(_, _)
NullLines(frame, cols) ==
    IF cols = <<>> THEN <<>>
    ELSE (IF NullCount(frame, Head(cols)) > 0
          THEN <<NullLine(Head(cols), NullCount(frame, Head(cols)))>>
          ELSE <<>>)
         \o NullLines(frame, Tail(cols))

NumericLines(frame, y) ==
    IF IsNumericDtype(DtypeOf(frame, y), Column(frame, y)) THEN <<>>
    ELSE <<NonNumericLine(y)>>

\* a validator that stops at the first column with missing values
ChecksFailFast(frame, t, r, y) ==
    IF \E c \in Range(Fields(t, r, y)) : IsRepeated(frame, c)
    THEN Raise(Error("ValueError", {}, "nulls"))
    ELSE LET nulls == NullLines(frame, Fields(t, r, y))
         IN IF nulls # <<>> THEN Return(<<FALSE, <<Head(nulls)>> >>)
            ELSE IF NumericLines(frame, y) # <<>>
                 THEN Return(<<FALSE, NumericLines(frame, y)>>)
                 ELSE Return(<<TRUE, <<SuccessLine>> >>)

\* the checks after the column gate, for labels that are all present
ChecksAfterGate(frame, t, r, y) ==
    IF \E c \in Range(Fields(t, r, y)) : IsRepeated(frame, c)
    THEN \* "if df[col].isnull().any()" on a Series of several booleans
         Raise(Error("ValueError", {}, "nulls"))
    ELSE LET errors == NullLines(frame, Fields(t, r, y)) \o NumericLines(frame, y)
         IN IF errors # <<>> THEN Return(<<FALSE, errors>>)
            ELSE Return(<<TRUE, <<SuccessLine>> >>)

\* a validator without the early return after the column gate
ValidateNoGate(frame, t, r, y) ==
    LET present == SelectSeq(Fields(t, r, y), LAMBDA c : HasColumn(frame, c))
        rest == IF \E c \in Range(present) : IsRepeated(frame, c) THEN <<>>
                ELSE NullLines(frame, present)
        errors == MissingLines(frame, Fields(t, r, y)) \o rest
    IN IF errors # <<>> THEN Return(<<FALSE, errors>>)
       ELSE ChecksAfterGate(frame, t, r, y)

validate_rcbd_data(frame, t, r, y) ==
    LET errors == MissingLines(frame, Fields(t, r, y))
    IN IF errors # <<>> THEN Return(<<FALSE, errors>>)
       ELSE ChecksAfterGate(frame, t, r, y)

(***************************************************************************)
(* Inputs of the validator.                                                *)
(***************************************************************************)
ColumnLabels == {"G", "B", "Y"}
\* "Z" labels no column of any table
FieldNames == ColumnLabels \cup {"Z"}

\* the label lists without a repeated label, in file order
DistinctColumnLists ==
    {SelectSeq(<<"G", "B", "Y">>, LAMBDA c : c \in S) : S \in SUBSET ColumnLabels}

\* the label lists of three columns with a repeated label
RepeatedColumnLists ==
    {s \in [1..3 -> ColumnLabels] : Cardinality(Range(s)) < 3}

\* the dtypes a column of each label is given: treatment labels are text,
\* block numbers are numbers, the response column is anything
DtypesOfLabel(label) ==
    CASE label = "G" -> {"object"}
      [] label = "B" -> {"int64", "float64"}
      [] OTHER       -> Dtypes

\* the cells of the text column of treatment labels: a label or nothing
CellsOfLabel(label, dt) ==
    IF label = "G" THEN {Str(1), NULL} ELSE CellsOfDtype(dt, {1})

\* a dtype and a vector of n cells of that dtype
ColumnChoices(label, n) ==
    UNION {{<<dt, v>> : v \in [1..n -> CellsOfLabel(label, dt)]} :
              dt \in DtypesOfLabel(label)}

RECURSIVE ColumnsOver(_, _)
\* every way to fill the columns labelled by the list, one <<dtype, vector>> each
ColumnsOver(columns, n) ==
    IF columns = <<>> THEN {<<>>}
    ELSE {<<c>> \o rest : c \in ColumnChoices(Head(columns), n),
                          rest \in ColumnsOver(Tail(columns), n)}

FramesOver(columns, n) ==
    {Frame(columns, [i \in DOMAIN columns |-> c[i][1]],
           [i \in DOMAIN columns |-> c[i][2]], n) :
        c \in ColumnsOver(columns, n)}

ValidatorFrames(lists) ==
    UNION {FramesOver(columns, n) : columns \in lists, n \in 0..MaxRowsV}

InitWith(frames, fields) ==
    /\ df \in frames
    /\ treatment_col \in fields
    /\ rep_col \in fields
    /\ response_col \in fields
    /\ alpha = <<1, 20>>
    /\ called = "none"
    /\ ret = NoCall
    /\ NoScalars
    /\ NoApp

InitValidate == InitWith(ValidatorFrames(DistinctColumnLists), FieldNames)

InitValidateRepeated ==
    InitWith(ValidatorFrames(DistinctColumnLists \cup RepeatedColumnLists), FieldNames)

(***************************************************************************)
(* Actions: one call of an engine function.                                *)
(***************************************************************************)
ValidateRcbdData ==
    /\ called = "none"
    /\ called' = "validate_rcbd_data"
    /\ ret' = validate_rcbd_data(df, treatment_col, rep_col, response_col)
    /\ UNCHANGED <<df, treatment_col, rep_col, response_col, alpha, scalars, app>>

NextValidate == ValidateRcbdData

SpecValidate == InitValidate /\ [][NextValidate]_vars

SpecValidateRepeated == InitValidateRepeated /\ [][NextValidate]_vars

(***************************************************************************)
(* get_design_info                                                         *)
(***************************************************************************)
\* a descriptor that calls a table balanced when it has at least T*R rows
DescriptorAtLeast(t, r, n) ==
    [num_treatments |-> t, num_reps |-> r, total_plots |-> n,
     expected_plots |-> t * r, is_balanced |-> (n >= t * r)]

\* the dictionary get_design_info returns
Descriptor(t, r, n) ==
    [num_treatments |-> t, num_reps |-> r, total_plots |-> n,
     expected_plots |-> t * r, is_balanced |-> (n = t * r)]

\* df[treatment_col] raises KeyError for a label that is no column; the
\* tables given here carry each label once
get_design_info(frame, t, r) ==
    IF ~HasColumn(frame, t) THEN Raise(Error("KeyError", {t}, "lookup"))
    ELSE IF ~HasColumn(frame, r) THEN Raise(Error("KeyError", {r}, "lookup"))
    ELSE Return(Descriptor(NUnique(frame, t), NUnique(frame, r), frame.nrows))

(***************************************************************************)
(* Inputs of the design inspector: tables of a treatment column "G" and a  *)
(* block column "B", rows kept in sorted order (the functions do not       *)
(* depend on the order of the rows).                                       *)
(***************************************************************************)
TreatmentCells == <<Str(1), Str(2), Str(3), NULL>>
BlockCells == <<Num(1), Num(2), NULL>>

RECURSIVE NonDecreasing(_, _, _)
\* the non-decreasing sequences of n numbers of lo..hi
NonDecreasing(n, lo, hi) ==
    IF n = 0 THEN {<<>>}
    ELSE UNION {{<<k>> \o rest : rest \in NonDecreasing(n - 1, k, hi)} : k \in lo..hi}

\* the dtype pandas infers for a column of these cells
InferDtype(column) ==
    IF column = <<>> THEN "object"
    ELSE IF \A i \in DOMAIN column : column[i][1] = "num" THEN "int64"
    ELSE IF \A i \in DOMAIN column : column[i][1] \in {"num", "null"} THEN "float64"
    ELSE "object"

\* the k-th kind of row <<treatment, block>>
DesignRow(k) ==
    <<TreatmentCells[((k - 1) \div Len(BlockCells)) + 1],
      BlockCells[((k - 1) % Len(BlockCells)) + 1]>>

DesignFrame(kinds) ==
    LET g == [i \in DOMAIN kinds |-> DesignRow(kinds[i])[1]]
        b == [i \in DOMAIN kinds |-> DesignRow(kinds[i])[2]]
    IN Frame(<<"G", "B">>, <<InferDtype(g), InferDtype(b)>>, <<g, b>>, Len(kinds))

DesignFrames ==
    {DesignFrame(kinds) :
        kinds \in UNION {NonDecreasing(n, 1, Len(TreatmentCells) * Len(BlockCells)) :
                            n \in 0..MaxRowsD}}

InitDesign ==
    /\ df \in DesignFrames
    /\ treatment_col \in {"G", "B", "Z"}
    /\ rep_col \in {"G", "B"}
    /\ response_col = "Y"
    /\ alpha = <<1, 20>>
    /\ called = "none"
    /\ ret = NoCall
    /\ NoScalars
    /\ NoApp

GetDesignInfo ==
    /\ called = "none"
    /\ called' = "get_design_info"
    /\ ret' = get_design_info(df, treatment_col, rep_col)
    /\ UNCHANGED <<df, treatment_col, rep_col, response_col, alpha, scalars, app>>

NextDesign == GetDesignInfo

SpecDesign == InitDesign /\ [][NextDesign]_vars

(***************************************************************************)
(* Exact arithmetic.  The engine computes in floating point; the model     *)
(* computes the same quantities as rationals <<numerator, denominator>> in *)
(* lowest terms, so an equality of the model is an equality up to rounding *)
(* in the program.                                                         *)
(***************************************************************************)
Abs(n) == IF n < 0 THEN -n ELSE n

RECURSIVE GCD(_, _)
GCD(a, b) == IF b = 0 THEN a ELSE GCD(b, a % b)

\* the rational n/d, d # 0, in lowest terms with a positive denominator
Rat(n, d) ==
    LET g == GCD(Abs(n), Abs(d))
        sign == IF d < 0 THEN -1 ELSE 1
    IN <<sign * (n \div g), sign * (d \div g)>>

RInt(n) == <<n, 1>>
RAdd(x, y) == Rat(x[1] * y[2] + y[1] * x[2], x[2] * y[2])
RSub(x, y) == Rat(x[1] * y[2] - y[1] * x[2], x[2] * y[2])
RMul(x, y) == Rat(x[1] * y[1], x[2] * y[2])
\* x / y for y # 0
RDiv(x, y) == Rat(x[1] * y[2], x[2] * y[1])
RLess(x, y) == x[1] * y[2] < y[1] * x[2]
RLessEq(x, y) == x[1] * y[2] <= y[1] * x[2]

RECURSIVE RPow(_, _)
RPow(x, k) == IF k = 0 THEN RInt(1) ELSE RMul(x, RPow(x, k - 1))

RECURSIVE SumOver(_, _)
\* f[1] + ... + f[n]
SumOver(f, n) == IF n = 0 THEN 0 ELSE f[n] + SumOver(f, n - 1)

Dot(u, v) == SumOver([i \in DOMAIN u |-> u[i] * v[i]], Len(u))

\* the matrix of inner products of a list of vectors
Gram(vs) == [i \in DOMAIN vs |-> [j \in DOMAIN vs |-> Dot(vs[i], vs[j])]]

RECURSIVE Eliminate(_, _, _, _, _)
\* Fraction-free elimination of the n x n Gram matrix of a list of vectors,
\* from vector k on.  A vector whose pivot is zero depends on the vectors
\* before it and is skipped.  The result is <<d1, d0, rank>>: d0 the Gram
\* determinant of the independent vectors among the first n - 1, rank their
\* number, and d1 the Gram determinant of those vectors and the last one.
Eliminate(M, k, n, prev, rank) ==
    IF k = n THEN <<M[n][n], prev, rank>>
    ELSE IF M[k][k] = 0 THEN Eliminate(M, k + 1, n, prev, rank)
    ELSE Eliminate([i \in 1..n |-> [j \in 1..n |->
                       IF i > k /\ j > k
                       THEN (M[i][j] * M[k][k] - M[i][k] * M[k][j]) \div prev
                       ELSE M[i][j]]],
                   k + 1, n, M[k][k], rank + 1)

\* the least-squares fit of the last vector numbered by idx on the others,
\* read from the Gram matrix G of all the vectors
Fit(G, idx) ==
    Eliminate([i \in DOMAIN idx |-> [j \in DOMAIN idx |-> G[idx[i]][idx[j]]]],
              1, Len(idx), 1, 0)

\* the rank of the design matrix
MatrixRank(fit) == fit[3]

\* model.ssr: the residual sum of squares of the fit
ResidualSS(fit) == Rat(fit[1], fit[2])

RECURSIVE SetToSeq(_)
SetToSeq(S) ==
    IF S = {} THEN <<>>
    ELSE LET x == CHOOSE x \in S : TRUE IN <<x>> \o SetToSeq(S \ {x})

(***************************************************************************)
(* Floating-point values that are roots of rationals: a value is kept as   *)
(* its sign and its square, so that np.sqrt is exact; NaN and the          *)
(* infinities follow the IEEE rules numpy applies.                         *)
(***************************************************************************)
NaN == [kind |-> "nan", sign |-> 0, sq |-> <<0, 1>>]
Inf(s) == [kind |-> "inf", sign |-> s, sq |-> <<0, 1>>]
\* the number of sign s whose square is q
Root(s, q) == [kind |-> "num", sign |-> IF q[1] = 0 THEN 0 ELSE s, sq |-> q]

Sign(n) == IF n < 0 THEN -1 ELSE IF n = 0 THEN 0 ELSE 1

\* the float of the rational x
FromRat(x) == Root(Sign(x[1]), RMul(x, x))

\* np.sqrt of the rational x: NaN below zero
Sqrt(x) == IF x[1] < 0 THEN NaN ELSE Root(1, x)

\* a * b
FMul(a, b) ==
    IF a.kind = "nan" \/ b.kind = "nan" THEN NaN
    ELSE IF a.kind = "inf" \/ b.kind = "inf"
    THEN IF a.sign * b.sign = 0 THEN NaN ELSE Inf(a.sign * b.sign)
    ELSE Root(a.sign * b.sign, RMul(a.sq, b.sq))

\* a / b for numpy floats: a division by zero is an infinity or NaN
FDiv(a, b) ==
    IF a.kind = "nan" \/ b.kind = "nan" THEN NaN
    ELSE IF a.kind = "inf"
    THEN IF b.kind = "inf" THEN NaN
         ELSE Inf(IF b.sign < 0 THEN -a.sign ELSE a.sign)
    ELSE IF b.kind = "inf" THEN Root(0, <<0, 1>>)
    ELSE IF b.sign = 0
    THEN IF a.sign = 0 THEN NaN ELSE Inf(a.sign)
    ELSE Root(a.sign * b.sign, RDiv(a.sq, b.sq))

\* a < k for an integer k > 0; a comparison with NaN is false
FLessInt(a, k) ==
    CASE a.kind = "nan" -> FALSE
      [] a.kind = "inf" -> a.sign < 0
      [] OTHER -> a.sign <= 0 \/ RLess(a.sq, RInt(k * k))

(***************************************************************************)
(* The linear model of run_rcbd_anova and run_crd_anova.                   *)
(***************************************************************************)
\* the response values as numbers
Response(frame, y) == [i \in 1..frame.nrows |-> Column(frame, y)[i][2]]

Levels(frame, col) == Range(Column(frame, col)) \ {NULL}

\* the indicator column of one level of a factor
Indicator(frame, col, level) ==
    [i \in 1..frame.nrows |-> IF Column(frame, col)[i] = level THEN 1 ELSE 0]

Intercept(frame) == [i \in 1..frame.nrows |-> 1]

\* the columns patsy builds for C(col) beside an intercept: one indicator
\* per level except the reference level, the first of the sorted levels
FactorColumns(frame, col) ==
    LET levels == Levels(frame, col)
        reference == CHOOSE l \in levels : \A m \in levels : l[2] <= m[2]
        others == SetToSeq(levels \ {reference})
    IN IF levels = {} THEN <<>>
       ELSE [k \in DOMAIN others |-> Indicator(frame, col, others[k])]

\* df[response_col].mean() of a column with a value: the missing values
\* are skipped
GrandMean(frame, y) ==
    LET values == DropNa(Column(frame, y))
    IN Rat(SumOver(values, Len(values)), Len(values))

\* the values the model takes for a p-value scipy computes where the
\* distribution function has no closed rational form
PGrid == {Rat(1, 100), Rat(5, 100), Rat(1, 2)}

\* stats.f.sf(F, d1, d2); for d1 = 2 and even d2 it is (d2/(d2 + 2F))^(d2/2)
PValues(F, d1, d2) ==
    IF d1 = 2 /\ d2 % 2 = 0
    THEN {RPow(RDiv(RInt(d2), RAdd(RInt(d2), RMul(RInt(2), F))), d2 \div 2)}
    ELSE PGrid

\* the formatted row of the anova table
TableRow(source, dfree, ss, ms) ==
    [Source |-> source, df |-> dfree, sum_sq |-> ss, mean_sq |-> ms]

\* a sum of squares statsmodels derives from a Wald test on the
\* pseudo-inverse of a rank-deficient design; the model does not compute it
WaldOnPinv == <<"pinv">>

\* total_ss without the block term
TotalSSWithoutBlock(residual_ss, treatment_ss, rep_ss) ==
    RAdd(residual_ss, treatment_ss)

\* total_ss = Residual sum_sq + treatment_ss + rep_ss
TotalSS(residual_ss, treatment_ss, rep_ss) ==
    RAdd(RAdd(residual_ss, treatment_ss), rep_ss)

\* a significance test that also accepts p = alpha
IsSignificantOrEqual(p, a) == RLessEq(p, a)

\* is_significant = treatment_p < alpha
IsSignificant(p, a) == RLess(p, a)

\* squares of the values the model takes for a quantile scipy computes
\* where the quantile function has no closed rational form
TSquares == {Rat(1, 1), Rat(9, 1)}

\* stats.t.ppf(p, dfree): NaN without positive degrees of freedom, the sign
\* of p - 1/2 otherwise; for dfree = 2 its square is (2p-1)^2 / (2p(1-p))
TPpf(p, dfree) ==
    IF dfree <= 0 \/ p[1] < 0 \/ RLess(RInt(1), p) THEN {NaN}
    ELSE IF p[1] = 0 THEN {Inf(-1)}
    ELSE IF p = RInt(1) THEN {Inf(1)}
    ELSE IF p = Rat(1, 2) THEN {Root(0, <<0, 1>>)}
    ELSE LET s == IF RLess(Rat(1, 2), p) THEN 1 ELSE -1
             d == RSub(RMul(RInt(2), p), RInt(1))
         IN IF dfree = 2
            THEN {Root(s, RDiv(RMul(d, d),
                               RMul(RMul(RInt(2), p), RSub(RInt(1), p))))}
            ELSE {Root(s, q) : q \in TSquares}

\* a critical value taken from the lower tail
TCriticalLowerTail(a, dfree) == TPpf(RDiv(a, RInt(2)), dfree)

\* t_critical = stats.t.ppf(1 - alpha / 2, residual_df)
TCritical(a, dfree) == TPpf(RSub(RInt(1), RDiv(a, RInt(2))), dfree)

\* np.sqrt(2 * mse / num_reps) for num_reps # 0
SeDiff(ms, r) == Sqrt(RDiv(RMul(RInt(2), ms), RInt(r)))

\* cv = (np.sqrt(residual_ms) / grand_mean) * 100
Cv(ms, mean) == FMul(FDiv(Sqrt(ms), FromRat(mean)), FromRat(RInt(100)))

\* model.df_resid = nobs - rank of the design matrix
ResidualDf(n, rank, t, r) == n - rank

\* df.groupby(treatment_col)[response_col].agg(['mean', 'std', 'count'])
\* with SE = Std / sqrt(N): one row per treatment label
TreatmentMeans(frame, t, y) ==
    [level \in Range(Column(frame, t)) \ {NULL} |->
        LET rows == SelectSeq([i \in 1..frame.nrows |-> i],
                              LAMBDA i : Column(frame, t)[i] = level)
            values == DropNa([k \in 1..Len(rows) |-> Column(frame, y)[rows[k]]])
            std == IF Len(values) < 2 THEN NaN
                   ELSE LET n == Len(values)
                            total == SumOver(values, n)
                            squares == SumOver([i \in 1..n |->
                                (n * values[i] - total) * (n * values[i] - total)], n)
                        IN Sqrt(Rat(squares, n * n * (n - 1)))
        IN [Mean |-> IF values = <<>> THEN NaN
                     ELSE FromRat(Rat(SumOver(values, Len(values)), Len(values))),
            Std |-> std,
            N |-> Len(values),
            SE |-> FDiv(std, Sqrt(RInt(Len(values))))]]

\* a result whose statistics are all undefined
OneLevelFactorUndefined ==
    {Return([anova_table |-> <<>>, grand_mean |-> NaN, f_treatment |-> NaN,
             p_treatment |-> NaN, is_significant |-> FALSE, mse |-> NaN,
             cv |-> NaN, se_diff |-> NaN, lsd |-> NaN])}

\* anova_lm on a factor with one level: the factor has no column, its F
\* test has no constraint row and raises
OneLevelFactor == {Raise(Error("ValueError", {}, "anova"))}

\* the outcomes of run_rcbd_anova for a table whose three columns exist and
\* hold a numeric response; the fit uses the rows without a missing value
RcbdOutcomes(frame, t, r, y, a) ==
    LET used == CompleteCases(frame, <<t, r, y>>)
        tcols == FactorColumns(used, t)
        bcols == FactorColumns(used, r)
        \* the design matrix: intercept, treatment columns, block columns;
        \* the response is vector number yi
        full == <<Intercept(used)>> \o tcols \o bcols
        yi == Len(full) + 1
        G == Gram(Append(full, Response(used, y)))
        tidx == [k \in 1..Len(tcols) |-> 1 + k]
        bidx == [k \in 1..Len(bcols) |-> 1 + Len(tcols) + k]
        fit == Fit(G, [k \in 1..yi |-> k])
        treatment_df == Len(tcols)
        rep_df == Len(bcols)
        residual_df == ResidualDf(used.nrows, MatrixRank(fit),
                                  Cardinality(Levels(used, t)),
                                  Cardinality(Levels(used, r)))
        full_rank == MatrixRank(fit) = Len(full)
        residual_ss == ResidualSS(fit)
        \* the Type II sum of squares of a factor: what the residual sum of
        \* squares gains when the factor's columns are dropped
        treatment_ss == IF full_rank
                        THEN RSub(ResidualSS(Fit(G, <<1>> \o bidx \o <<yi>>)), residual_ss)
                        ELSE WaldOnPinv
        rep_ss == IF full_rank
                  THEN RSub(ResidualSS(Fit(G, <<1>> \o tidx \o <<yi>>)), residual_ss)
                  ELSE WaldOnPinv
        residual_ms == RDiv(residual_ss, RInt(residual_df))
        exact == full_rank /\ residual_ss[1] # 0
        treatment_ms == IF full_rank THEN RDiv(treatment_ss, RInt(treatment_df))
                        ELSE WaldOnPinv
        treatment_f == IF exact THEN RDiv(treatment_ms, residual_ms) ELSE WaldOnPinv
        total_ss == IF full_rank THEN TotalSS(residual_ss, treatment_ss, rep_ss)
                    ELSE WaldOnPinv
        total_df == treatment_df + rep_df + residual_df
        ps == IF exact THEN PValues(treatment_f, treatment_df, residual_df) ELSE PGrid
    IN IF used.nrows = 0
       THEN \* no row is left for the design matrix
            {Raise(Error("ValueError", {}, "fit"))}
       ELSE IF treatment_df = 0 \/ rep_df = 0
       THEN OneLevelFactor
       ELSE IF residual_df = 0
       THEN \* scale = ssr / 0: the covariance of the F test is not finite
            {Raise(Error("ValueError", {}, "anova"))}
       ELSE {Return([
               anova_table |-> <<
                   TableRow(t, treatment_df, treatment_ss, treatment_ms),
                   TableRow(r, rep_df, rep_ss,
                            IF full_rank THEN RDiv(rep_ss, RInt(rep_df)) ELSE WaldOnPinv),
                   TableRow("Residual", residual_df, residual_ss, residual_ms),
                   TableRow("Total", total_df, total_ss,
                            IF full_rank THEN RDiv(total_ss, RInt(total_df))
                            ELSE WaldOnPinv) >>,
               treatment_means |-> TreatmentMeans(frame, t, y),
               grand_mean |-> GrandMean(frame, y),
               f_treatment |-> treatment_f,
               p_treatment |-> p,
               is_significant |-> IsSignificant(p, a),
               alpha |-> a,
               mse |-> residual_ms,
               model |-> [nobs |-> used.nrows, ssr |-> residual_ss],
               cv |-> Cv(residual_ms, GrandMean(frame, y)),
               se_diff |-> SeDiff(residual_ms, NUnique(frame, r)),
               lsd |-> FMul(tc, SeDiff(residual_ms, NUnique(frame, r))),
               num_treatments |-> treatment_df + 1,
               num_reps |-> NUnique(frame, r),
               residual_df |-> residual_df]) :
                   p \in ps, tc \in TCritical(a, residual_df)}

\* the labels that are names of the Python language; a label such as
\* "Y kg" is not
PythonNames == {"G", "B", "Y", "Z"}

\* run_rcbd_anova: the column check, then the formula, then the fit
run_rcbd_anova(frame, t, r, y, a) ==
    IF ~HasColumn(frame, t) \/ ~HasColumn(frame, r) \/ ~HasColumn(frame, y)
    THEN \* "One or more columns not found in DataFrame"
         {Raise(Error("ValueError", {}, "columns"))}
    ELSE IF ~({t, r, y} \subseteq PythonNames)
    THEN \* ols(formula, data=df): patsy reads each name of the formula as
         \* Python code and shows the formula in its error
         {Raise(Error("PatsyError", {t, r, y}, "formula"))}
    ELSE RcbdOutcomes(frame, t, r, y, a)

\* the outcomes of run_crd_anova for a table whose two columns exist and
\* hold a numeric response; the fit uses the rows without a missing value
CrdOutcomes(frame, t, y, a) ==
    LET used == CompleteCases(frame, <<t, y>>)
        tcols == FactorColumns(used, t)
        full == <<Intercept(used)>> \o tcols
        yi == Len(full) + 1
        G == Gram(Append(full, Response(used, y)))
        fit == Fit(G, [k \in 1..yi |-> k])
        treatment_df == Len(tcols)
        residual_ss == ResidualSS(fit)
        residual_df == used.nrows - MatrixRank(fit)
        residual_ms == RDiv(residual_ss, RInt(residual_df))
        \* the sum of squares of the treatment term: what the residual sum of
        \* squares gains when the treatment columns are dropped
        treatment_ss == RSub(ResidualSS(Fit(G, <<1, yi>>)), residual_ss)
        exact == residual_ss[1] # 0
        treatment_f == IF exact
                       THEN RDiv(RDiv(treatment_ss, RInt(treatment_df)), residual_ms)
                       ELSE WaldOnPinv
        ps == IF exact THEN PValues(treatment_f, treatment_df, residual_df) ELSE PGrid
    IN IF used.nrows = 0
       THEN {Raise(Error("ValueError", {}, "fit"))}
       ELSE IF treatment_df = 0
       THEN {Raise(Error("ValueError", {}, "anova"))}
       ELSE IF residual_df = 0
       THEN {Raise(Error("ValueError", {}, "anova"))}
       ELSE {Return([
               anova_table |-> <<
                   [Source |-> "Intercept", df |-> 1],
                   [Source |-> t, df |-> treatment_df, sum_sq |-> treatment_ss],
                   [Source |-> "Residual", df |-> residual_df, sum_sq |-> residual_ss] >>,
               treatment_means |-> TreatmentMeans(frame, t, y),
               grand_mean |-> GrandMean(frame, y),
               f_treatment |-> treatment_f,
               p_treatment |-> p,
               is_significant |-> IsSignificant(p, a),
               alpha |-> a,
               model |-> [nobs |-> used.nrows, ssr |-> residual_ss],
               cv |-> Cv(residual_ms, GrandMean(frame, y)),
               mse |-> residual_ms]) : p \in ps}

\* run_crd_anova: no column check of its own; the formula fails on a name
\* that is no column or no Python name, and the error shows the formula
run_crd_anova(frame, t, y, a) ==
    IF ~HasColumn(frame, t) \/ ~HasColumn(frame, y)
         \/ ~({t, y} \subseteq PythonNames)
    THEN {Raise(Error("PatsyError", {t, y}, "formula"))}
    ELSE CrdOutcomes(frame, t, y, a)

(***************************************************************************)
(* Inputs of the analysis: tables of a treatment column "G", a block       *)
(* column "B" and a numeric response "Y" without missing values, rows in   *)
(* sorted order.                                                           *)
(***************************************************************************)
AnovaTreatments == <<Str(1), Str(2), Str(3)>>
AnovaBlocks == <<Num(1), Num(2)>>
AnovaResponses == <<Num(0), Num(1)>>

\* the k-th kind of row <<treatment, block, response>>
AnovaRow(k) ==
    LET nb == Len(AnovaBlocks)
        ny == Len(AnovaResponses)
    IN <<AnovaTreatments[((k - 1) \div (nb * ny)) + 1],
         AnovaBlocks[(((k - 1) \div ny) % nb) + 1],
         AnovaResponses[((k - 1) % ny) + 1]>>

AnovaFrame(kinds) ==
    LET g == [i \in DOMAIN kinds |-> AnovaRow(kinds[i])[1]]
        b == [i \in DOMAIN kinds |-> AnovaRow(kinds[i])[2]]
        y == [i \in DOMAIN kinds |-> AnovaRow(kinds[i])[3]]
    IN Frame(<<"G", "B", "Y">>, <<InferDtype(g), InferDtype(b), InferDtype(y)>>,
             <<g, b, y>>, Len(kinds))

AnovaFrames ==
    {AnovaFrame(kinds) :
        kinds \in UNION {NonDecreasing(n, 1, Len(AnovaTreatments) * Len(AnovaBlocks)
                                               * Len(AnovaResponses)) :
                            n \in 0..MaxRowsA}}

\* the default of the alpha argument
DefaultAlpha == Rat(5, 100)

InitAnova ==
    /\ df \in AnovaFrames
    /\ treatment_col = "G"
    /\ rep_col = "B"
    /\ response_col = "Y"
    /\ alpha = DefaultAlpha
    /\ called = "none"
    /\ ret = NoCall
    /\ NoScalars
    /\ NoApp

RunRcbdAnova ==
    /\ called = "none"
    /\ called' = "run_rcbd_anova"
    /\ ret' \in run_rcbd_anova(df, treatment_col, rep_col, response_col, alpha)
    /\ UNCHANGED <<df, treatment_col, rep_col, response_col, alpha, scalars, app>>

NextAnova == RunRcbdAnova

SpecAnova == InitAnova /\ [][NextAnova]_vars

(***************************************************************************)
(* Complete designs: one row for every treatment and block, responses      *)
(* 0..MaxResponseC, analysed at each alpha of the configuration by both    *)
(* analyses.                                                               *)
(***************************************************************************)
CompleteFrames ==
    LET nt == Len(AnovaTreatments)
        nb == Len(AnovaBlocks)
    IN {Frame(<<"G", "B", "Y">>, <<"object", "int64", "int64">>,
              << [i \in 1..(nt * nb) |-> AnovaTreatments[((i - 1) \div nb) + 1]],
                 [i \in 1..(nt * nb) |-> AnovaBlocks[((i - 1) % nb) + 1]],
                 [i \in 1..(nt * nb) |-> Num(y[i])] >>,
              nt * nb) :
          y \in [1..(nt * nb) -> 0..MaxResponseC]}

\* ALPHA_LEVELS of the configuration
AlphaValues == {Rat(1, 100), Rat(5, 100), Rat(10, 100)}

InitComplete ==
    /\ df \in CompleteFrames
    /\ treatment_col = "G"
    /\ rep_col = "B"
    /\ response_col = "Y"
    /\ alpha \in AlphaValues
    /\ called = "none"
    /\ ret = NoCall
    /\ NoScalars
    /\ NoApp

RunCrdAnova ==
    /\ called = "none"
    /\ called' = "run_crd_anova"
    /\ ret' \in run_crd_anova(df, treatment_col, response_col, alpha)
    /\ UNCHANGED <<df, treatment_col, rep_col, response_col, alpha, scalars, app>>

NextComplete == RunRcbdAnova \/ RunCrdAnova

SpecComplete == InitComplete /\ [][NextComplete]_vars

(***************************************************************************)
(* get_summary_stats and clean_data                                        *)
(***************************************************************************)
RECURSIVE Insert(_, _)
Insert(x, sorted) ==
    IF sorted = <<>> THEN <<x>>
    ELSE IF x <= Head(sorted) THEN <<x>> \o sorted
    ELSE <<Head(sorted)>> \o Insert(x, Tail(sorted))

RECURSIVE Sorted(_)
Sorted(values) ==
    IF values = <<>> THEN <<>> ELSE Insert(Head(values), Sorted(Tail(values)))

\* Series.mean(): NaN for no value
Mean(values) ==
    IF values = <<>> THEN NaN
    ELSE FromRat(Rat(SumOver(values, Len(values)), Len(values)))

\* Series.std(): the square root of the sum of squared deviations over
\* n - 1; NaN for fewer than two values
Std(values) ==
    LET n == Len(values)
        total == SumOver(values, n)
        squares == SumOver([i \in 1..n |-> (n * values[i] - total) * (n * values[i] - total)], n)
    IN IF n < 2 THEN NaN ELSE Sqrt(Rat(squares, n * n * (n - 1)))

\* Series.sem() = std / sqrt(n)
Sem(values) ==
    IF Len(values) < 2 THEN NaN ELSE FDiv(Std(values), Sqrt(RInt(Len(values))))

Min(values) == IF values = <<>> THEN NaN ELSE FromRat(RInt(Sorted(values)[1]))
Max(values) ==
    IF values = <<>> THEN NaN ELSE FromRat(RInt(Sorted(values)[Len(values)]))

\* Series.quantile(num/den): linear interpolation between the order
\* statistics at position (n - 1) * num / den
Quantile(values, num, den) ==
    LET n == Len(values)
        v == Sorted(values)
        lo == ((n - 1) * num) \div den
        rest == ((n - 1) * num) % den
    IN IF n = 0 THEN NaN
       ELSE IF rest = 0 THEN FromRat(RInt(v[lo + 1]))
       ELSE FromRat(Rat(v[lo + 1] * den + rest * (v[lo + 2] - v[lo + 1]), den))

\* the rows of df.groupby(treatment_col)[response_col].agg(...): one per
\* treatment label, missing labels left out
Grouped(frame, t, y) ==
    [level \in Range(Column(frame, t)) \ {NULL} |->
        LET rows == SelectSeq([i \in 1..frame.nrows |-> i],
                              LAMBDA i : Column(frame, t)[i] = level)
            values == DropNa([k \in 1..Len(rows) |-> Column(frame, y)[rows[k]]])
        IN [n |-> Len(values), mean |-> Mean(values), std |-> Std(values),
            min |-> Min(values), max |-> Max(values)]]


\* get_summary_stats over a response column of numbers
get_summary_stats(frame, y, t) ==
    IF ~HasColumn(frame, y) THEN Raise(Error("KeyError", {y}, "lookup"))
    ELSE LET response_data == DropNa(Column(frame, y))
             stats == [n |-> Len(response_data),
                       mean |-> Mean(response_data),
                       std |-> Std(response_data),
                       se |-> Sem(response_data),
                       min |-> Min(response_data),
                       max |-> Max(response_data),
                       q25 |-> Quantile(response_data, 1, 4),
                       median |-> Quantile(response_data, 1, 2),
                       q75 |-> Quantile(response_data, 3, 4)]
         IN IF t # None /\ HasColumn(frame, t)
            THEN Return(stats @@ [grouped |-> Grouped(frame, t, y)])
            ELSE Return(stats)

\* df.dropna(subset=[y], inplace=True): the rows are removed from the table
\* itself
DropnaInPlace(frame, y) ==
    LET kept == TakeRows(frame, RowsWithValues(frame, <<y>>))
    IN [result |-> kept, table |-> kept]

\* df.dropna(subset=[y]): a new table of the rows with a value in y; the
\* table it is called on stays as it is
Dropna(frame, y) ==
    [result |-> TakeRows(frame, RowsWithValues(frame, <<y>>)), table |-> frame]

\* lower_bound <= v <= upper_bound for the bounds mean -/+ 3 * std of
\* values; false when the std is NaN
WithinBounds(v, values) ==
    LET n == Len(values)
        total == SumOver(values, n)
        squares == SumOver([i \in 1..n |-> (n * values[i] - total) * (n * values[i] - total)], n)
    IN n >= 2 /\ (n * v - total) * (n * v - total) * (n - 1) <= 9 * squares

\* clean_data with threshold = 3.0: what it returns or raises, and the
\* caller's table after the call
clean_data(frame, y, remove_outliers) ==
    IF ~HasColumn(frame, y)
    THEN [ret |-> Raise(Error("KeyError", {y}, "lookup")), table |-> frame]
    ELSE LET dropped == Dropna(frame, y)
             df_clean == dropped.result
             values == DropNa(Column(df_clean, y))
             inside == SelectSeq([i \in 1..df_clean.nrows |-> i],
                                 LAMBDA i : WithinBounds(values[i], values))
         IN [ret |-> Return(IF remove_outliers THEN TakeRows(df_clean, inside)
                            ELSE df_clean),
             table |-> dropped.table]

(***************************************************************************)
(* calculate_lsd                                                           *)
(***************************************************************************)
calculate_lsd(m, r, dfree, a) ==
    {Return(FMul(tc, SeDiff(m, r))) : tc \in TCritical(a, dfree)}

\* mean squares in halves from -1/2, replications from 1, residual degrees
\* of freedom from 0
InitLsdScalars ==
    /\ df = Frame(<<>>, <<>>, <<>>, 0)
    /\ treatment_col = "G"
    /\ rep_col = "B"
    /\ response_col = "Y"
    /\ alpha \in AlphaValues
    /\ called = "none"
    /\ ret = NoCall
    /\ cv_arg = [kind |-> "num", sign |-> 0, sq |-> <<0, 1>>]
    /\ mse_arg \in {Rat(n, 2) : n \in (-1)..MaxMseL}
    /\ num_reps_arg \in 1..MaxRepsL
    /\ residual_df_arg \in 0..MaxDfL
    /\ NoApp

InitLsd == InitComplete \/ InitLsdScalars

CalculateLsd ==
    /\ called = "none"
    /\ called' = "calculate_lsd"
    /\ ret' \in calculate_lsd(mse_arg, num_reps_arg, residual_df_arg, alpha)
    /\ UNCHANGED <<df, treatment_col, rep_col, response_col, alpha, scalars, app>>

NextLsd == RunRcbdAnova \/ CalculateLsd

SpecLsd == InitLsd /\ [][NextLsd]_vars

(***************************************************************************)
(* get_cv_quality                                                          *)
(***************************************************************************)
\* CV_THRESHOLDS of the configuration
CV_THRESHOLDS == [excellent |-> 10, good |-> 15, acceptable |-> 20]

\* a classification whose bands are closed above
GetCvQualityClosedAbove(c) ==
    IF FLessInt(c, 10) \/ c = FromRat(RInt(10)) THEN "Excellent"
    ELSE IF FLessInt(c, 15) \/ c = FromRat(RInt(15)) THEN "Good"
    ELSE IF FLessInt(c, 20) \/ c = FromRat(RInt(20)) THEN "Acceptable"
    ELSE "Poor"

\* the label is named by its English part
get_cv_quality(c) ==
    IF FLessInt(c, 10) THEN "Excellent"
    ELSE IF FLessInt(c, 15) THEN "Good"
    ELSE IF FLessInt(c, 20) THEN "Acceptable"
    ELSE "Poor"

\* CV values in steps of a tenth of a percent, negative ones (a negative
\* grand mean) included, and the values a zero grand mean produces
CvValues ==
    {FromRat(Rat(n, 10)) : n \in (-10)..(10 * MaxCv)} \cup {NaN, Inf(1), Inf(-1)}

EmptyFrame == Frame(<<>>, <<>>, <<>>, 0)

InitCv ==
    /\ df = EmptyFrame
    /\ treatment_col = "G"
    /\ rep_col = "B"
    /\ response_col = "Y"
    /\ alpha = DefaultAlpha
    /\ called = "none"
    /\ ret = NoCall
    /\ cv_arg \in CvValues
    /\ mse_arg = <<0, 1>>
    /\ num_reps_arg = 1
    /\ residual_df_arg = 1
    /\ NoApp

GetCvQuality ==
    /\ called = "none"
    /\ called' = "get_cv_quality"
    /\ ret' = Return(get_cv_quality(cv_arg))
    /\ UNCHANGED <<df, treatment_col, rep_col, response_col, alpha, scalars, app>>

NextCv == GetCvQuality

SpecCv == InitCv /\ [][NextCv]_vars

(***************************************************************************)
(* Field names: complete 2x2 designs whose response column is labelled "Y" *)
(* or "Y kg", and calls that name columns the table has or has not.        *)
(***************************************************************************)
FieldFrames ==
    {Frame(<<"G", "B", label>>, <<"object", "int64", "int64">>,
           << <<Str(1), Str(1), Str(2), Str(2)>>,
              <<Num(1), Num(2), Num(1), Num(2)>>,
              [i \in 1..4 |-> Num(y[i])] >>,
           4) :
       label \in {"Y", "Y kg"}, y \in [1..4 -> 0..MaxResponseF]}

InitFields ==
    /\ df \in FieldFrames
    /\ treatment_col \in {"G", "Z"}
    /\ rep_col \in {"B", "Z"}
    /\ response_col \in {"Y", "Y kg", "Z"}
    /\ alpha = DefaultAlpha
    /\ called = "none"
    /\ ret = NoCall
    /\ NoScalars
    /\ NoApp

GetSummaryStats ==
    /\ called = "none"
    /\ called' = "get_summary_stats"
    /\ ret' = get_summary_stats(df, response_col, treatment_col)
    /\ UNCHANGED <<df, treatment_col, rep_col, response_col, alpha, scalars, app>>

NextFields == RunRcbdAnova \/ RunCrdAnova \/ GetDesignInfo \/ GetSummaryStats

SpecFields == InitFields /\ [][NextFields]_vars

(***************************************************************************)
(* Sequences of engine calls on one table: 2x2 designs whose responses are *)
(* 0..MaxResponseE or missing; after a call the caller goes on to the next *)
(* one.                                                                    *)
(***************************************************************************)
EngineFrames ==
    {Frame(<<"G", "B", "Y">>, <<"object", "int64", InferDtype(y)>>,
           << <<Str(1), Str(1), Str(2), Str(2)>>,
              <<Num(1), Num(2), Num(1), Num(2)>>,
              y >>,
           4) :
       y \in [1..4 -> {Num(n) : n \in 0..MaxResponseE} \cup {NULL}]}

InitEngine ==
    /\ df \in EngineFrames
    /\ treatment_col = "G"
    /\ rep_col = "B"
    /\ response_col \in {"Y", "Z"}
    /\ alpha = DefaultAlpha
    /\ called = "none"
    /\ ret = NoCall
    /\ NoScalars
    /\ NoApp

CleanData ==
    /\ called = "none"
    /\ \E remove_outliers \in BOOLEAN :
          LET after == clean_data(df, response_col, remove_outliers)
          IN /\ ret' = after.ret
             /\ df' = after.table
    /\ called' = "clean_data"
    /\ UNCHANGED <<treatment_col, rep_col, response_col, alpha, scalars, app>>

\* the caller takes the outcome and is free to make the next call
Resume ==
    /\ called # "none"
    /\ called' = "none"
    /\ ret' = NoCall
    /\ UNCHANGED <<df, treatment_col, rep_col, response_col, alpha, scalars, app>>

NextEngine ==
    \/ ValidateRcbdData
    \/ GetDesignInfo
    \/ GetSummaryStats
    \/ CleanData
    \/ RunRcbdAnova
    \/ RunCrdAnova
    \/ Resume

SpecEngine == InitEngine /\ [][NextEngine]_vars

(***************************************************************************)
(* Tables with missing labels: a complete 2x2 design and a fifth row whose *)
(* treatment, block or response may be missing.                            *)
(***************************************************************************)
MissingLabelFrames ==
    {Frame(<<"G", "B", "Y">>,
           <<"object", InferDtype(<<b>>), InferDtype(Append(y, last))>>,
           << <<Str(1), Str(1), Str(2), Str(2), g>>,
              <<Num(1), Num(2), Num(1), Num(2), b>>,
              Append(y, last) >>,
           5) :
       g \in {Str(1), NULL}, b \in {Num(1), NULL},
       last \in {Num(MaxResponseG), NULL},
       y \in [1..4 -> {Num(n) : n \in 0..MaxResponseG}]}

InitMissingLabels ==
    /\ df \in MissingLabelFrames
    /\ treatment_col = "G"
    /\ rep_col = "B"
    /\ response_col = "Y"
    /\ alpha = DefaultAlpha
    /\ called = "none"
    /\ ret = NoCall
    /\ NoScalars
    /\ NoApp

SpecMissingLabels == InitMissingLabels /\ [][NextAnova]_vars

(***************************************************************************)
(* The application of app.py.  Streamlit runs the script again after every *)
(* interaction, so an action is one interaction together with the run of   *)
(* the script it causes.  df, treatment_col, rep_col, response_col, alpha, *)
(* called and ret hold the arguments and the outcome of the last engine    *)
(* call of that run, if it made one.                                       *)
(***************************************************************************)
\* the pages of the sidebar radio
Pages == {"home", "data", "anova", "visualization"}

\* the tables the uploaded files parse to: two treatments in two blocks,
\* responses 0, 1, 1 in the first three plots and a number or nothing in
\* the last
UploadTables ==
    {Frame(<<"G", "B", "Y">>,
           <<"object", "int64", InferDtype(<<Num(0), Num(1), Num(1), c>>)>>,
           << <<Str(1), Str(1), Str(2), Str(2)>>,
              <<Num(1), Num(2), Num(1), Num(2)>>,
              <<Num(0), Num(1), Num(1), c>> >>,
           4) :
        c \in {Num(v) : v \in 0..MaxResponseS} \cup {NULL}}

\* an uploaded file: pd.read_csv either parses it to a table or raises
UploadFiles ==
    {[parses |-> TRUE, table |-> f] : f \in UploadTables}
        \cup {[parses |-> FALSE, table |-> EmptyFrame]}

\* load_csv_file: (df, None), or (None, message) when pd.read_csv raises
load_csv_file(file) ==
    IF file.parses THEN <<<<file.table>>, None>> ELSE <<<<>>, "error">>

\* the select boxes as first drawn: each shows the first column
FirstColumns(frame) == <<frame.columns[1], frame.columns[1], frame.columns[1]>>

\* the choices of the three select boxes that are explored: three different
\* columns of the table
Arrangements(frame) ==
    {<<t, r, y>> : t, r, y \in Range(frame.columns)} \cap
        {s \in [1..3 -> Range(frame.columns)] : Cardinality(Range(s)) = 3}

\* the values of the alpha slider that are explored: its default and its
\* largest value
SliderValues == {Rat(5, 100), Rat(20, 100)}

\* app.py starts with an empty session on the home page
InitApp ==
    /\ df = EmptyFrame
    /\ treatment_col = None
    /\ rep_col = None
    /\ response_col = None
    /\ alpha = DefaultAlpha
    /\ called = "none"
    /\ ret = NoCall
    /\ NoScalars
    /\ NoApp

\* a run of the script that calls no engine function
NoEngineCall ==
    /\ df' = EmptyFrame
    /\ treatment_col' = None
    /\ rep_col' = None
    /\ response_col' = None
    /\ alpha' = DefaultAlpha
    /\ called' = "none"
    /\ ret' = NoCall

\* what the body of page p shows when no widget of the page holds a value:
\* the ANOVA page asks for a table, then for validated columns, before it
\* draws the run button; the visualization page asks for a result before
\* it draws (or fails to draw) each of its three charts
PageBody(p, state) ==
    CASE p = "home" -> "home"
      [] p = "data" -> "uploader"
      [] p = "anova" -> IF state.df = <<>> THEN "data required"
                        ELSE IF state.treatment_col = None THEN "columns required"
                        ELSE "run button"
      [] OTHER -> IF state.anova_results = <<>> THEN "analysis required"
                  ELSE "charts"

\* a result cleared by a run that raised
StoreResultOrClear(state, outcome) ==
    IF outcome.kind = "return"
    THEN [state EXCEPT !.anova_results = <<outcome.value>>]
    ELSE [state EXCEPT !.anova_results = <<>>]

\* the try block of the run button: the assignment to anova_results is
\* reached only when run_rcbd_anova returned
StoreResult(state, outcome) ==
    IF outcome.kind = "return"
    THEN [state EXCEPT !.anova_results = <<outcome.value>>]
    ELSE state

\* the sidebar radio: a widget that is not drawn on the new page loses its
\* state, so the uploader and the select boxes are empty when the data page
\* is drawn again
SelectPage ==
    \E p \in Pages \ {page} :
        /\ page' = p
        /\ uploaded_file' = <<>>
        /\ selected' = <<>>
        /\ shown' = PageBody(p, session)
        /\ NoEngineCall
        /\ UNCHANGED <<session, scalars>>

\* a file is put into the uploader of the data page: the table it parses to
\* becomes the session's table; the select boxes are drawn for its columns
\* and keep a choice made over the same columns
UploadFile ==
    \E file \in UploadFiles :
        LET loaded == load_csv_file(file)
        IN /\ page = "data"
           /\ uploaded_file' = <<file>>
           /\ IF loaded[2] # None
              THEN /\ session' = session
                   /\ selected' = <<>>
                   /\ shown' = "load error"
              ELSE /\ session' = [session EXCEPT !.df = loaded[1]]
                   /\ selected' = IF selected = <<>> THEN FirstColumns(loaded[1][1])
                                  ELSE selected
                   /\ shown' = "select boxes"
           /\ NoEngineCall
           /\ UNCHANGED <<page, scalars>>

\* the three select boxes of the data page
SelectColumns ==
    /\ page = "data"
    /\ selected # <<>>
    /\ selected' \in Arrangements(uploaded_file[1].table)
    /\ shown' = "select boxes"
    /\ NoEngineCall
    /\ UNCHANGED <<session, page, uploaded_file, scalars>>

\* the validate button, drawn after df[response_col].mean() of the column
\* check, which raises for a column of text: validate_rcbd_data on the
\* uploaded table and the chosen columns; accepted columns are stored and
\* get_design_info and get_summary_stats are shown
ClickValidate ==
    LET table == uploaded_file[1].table
        t == selected[1]
        r == selected[2]
        y == selected[3]
        validated == validate_rcbd_data(table, t, r, y)
        is_valid == validated.kind = "return" /\ validated.value[1]
    IN /\ page = "data"
       /\ selected # <<>>
       /\ IsNumericDtype(DtypeOf(table, y), Column(table, y))
       /\ df' = table
       /\ treatment_col' = t
       /\ rep_col' = r
       /\ response_col' = y
       /\ IF is_valid
          THEN /\ session' = [session EXCEPT !.treatment_col = t,
                                             !.replication_col = r,
                                             !.response_col = y]
               /\ called' = "get_summary_stats"
               /\ ret' = get_summary_stats(table, y, t)
               /\ shown' = "accepted"
          ELSE /\ session' = session
               /\ called' = "validate_rcbd_data"
               /\ ret' = validated
               /\ shown' = "rejected"
       /\ alpha' = DefaultAlpha
       /\ UNCHANGED <<page, uploaded_file, selected, scalars>>

\* the run button of the ANOVA page, drawn when the session has a table and
\* a treatment column: run_rcbd_anova on the session's table and columns at
\* the alpha of the slider; a returned result is stored, an exception is
\* shown
ClickRunAnova ==
    \E a \in SliderValues :
        /\ page = "anova"
        /\ session.df # <<>>
        /\ session.treatment_col # None
        /\ df' = session.df[1]
        /\ treatment_col' = session.treatment_col
        /\ rep_col' = session.replication_col
        /\ response_col' = session.response_col
        /\ alpha' = a
        /\ called' = "run_rcbd_anova"
        /\ ret' \in run_rcbd_anova(session.df[1], session.treatment_col,
                                   session.replication_col, session.response_col, a)
        /\ session' = StoreResult(session, ret')
        /\ shown' = IF ret'.kind = "return" THEN "result" ELSE "error"
        /\ UNCHANGED <<page, uploaded_file, selected, scalars>>

NextApp == SelectPage \/ UploadFile \/ SelectColumns \/ ClickValidate \/ ClickRunAnova

SpecApp == InitApp /\ [][NextApp]_vars

(***************************************************************************)
(* Properties of validate_rcbd_data.                                       *)
(***************************************************************************)
CalledFields == Fields(treatment_col, rep_col, response_col)

\* the roles (1 treatment, 2 block, 3 response) whose field is no column
MissingRoles == {k \in 1..3 : ~HasColumn(df, CalledFields[k])}

\* the roles whose column holds a missing value
NullRoles == {k \in 1..3 : NullCount(df, CalledFields[k]) > 0}

Validated == called = "validate_rcbd_data"

\* how often a line occurs in a message
Occurrences(msg, line) == Cardinality({i \in DOMAIN msg : msg[i] = line})

\* C1: when a field name is no column of the table the validator returns
\* ok = false and a message with exactly one line per missing field, each
\* naming that field, and no line of the null or numeric checks.
C1_MissingColumnsReported ==
    (Validated /\ MissingRoles # {}) =>
        /\ ret.kind = "return"
        /\ ret.value[1] = FALSE
        /\ Len(ret.value[2]) = Cardinality(MissingRoles)
        /\ \A i \in DOMAIN ret.value[2] : ret.value[2][i][1] = "missing"
        /\ \A c \in FieldNames :
              Occurrences(ret.value[2], MissingLine(c))
                = Cardinality({k \in MissingRoles : CalledFields[k] = c})

\* the response field "Y" is no column, the treatment column has a missing
\* value, and the message is the one line naming "Y"
C1_Witness ==
    /\ Validated
    /\ response_col = "Y" /\ ~HasColumn(df, "Y")
    /\ treatment_col = "G" /\ HasColumn(df, "G") /\ NullCount(df, "G") > 0
    /\ rep_col = "B" /\ HasColumn(df, "B")
    /\ ret = Return(<<FALSE, <<MissingLine("Y")>> >>)

ResponseDtypeNumeric == DtypeOf(df, response_col) \in {"int64", "float64"}

\* C2: with all three columns present the validator returns ok = true and
\* the success message iff no column has a missing value and the response
\* column is numeric; otherwise ok = false and the message has one line per
\* field whose column has missing values, with the count, plus one line for
\* a non-numeric response column, and nothing else.
C2_AccumulatesEveryFailure ==
    (Validated /\ MissingRoles = {}) =>
        /\ ret.kind = "return"
        /\ ret.value[1] = (NullRoles = {} /\ ResponseDtypeNumeric)
        /\ ret.value[1] => ret.value[2] = <<SuccessLine>>
        /\ ~ret.value[1] =>
              /\ Len(ret.value[2]) = Cardinality(NullRoles)
                                       + (IF ResponseDtypeNumeric THEN 0 ELSE 1)
              /\ \A k \in NullRoles :
                    Occurrences(ret.value[2],
                                NullLine(CalledFields[k], NullCount(df, CalledFields[k])))
                      = Cardinality({j \in NullRoles : CalledFields[j] = CalledFields[k]})
              /\ ~ResponseDtypeNumeric =>
                    Occurrences(ret.value[2], NonNumericLine(response_col)) = 1

\* two columns with missing values and a text response: three lines
C2_Witness ==
    /\ Validated
    /\ treatment_col = "G" /\ rep_col = "B" /\ response_col = "Y"
    /\ MissingRoles = {}
    /\ NullCount(df, "G") = 2 /\ NullCount(df, "Y") = 1
    /\ ret = Return(<<FALSE, <<NullLine("G", 2), NullLine("Y", 1), NonNumericLine("Y")>> >>)

\* a value pandas.to_numeric can turn into a real number (or into NaN for a
\* missing one)
Coercible(cell) == cell[1] \in {"num", "txt", "null"}

HasNonNumericLine ==
    Occurrences(ret.value[2], NonNumericLine(response_col)) > 0

\* C3 as stated: the non-numeric error is recorded exactly when some
\* response value is not coercible to a real number (read here on response
\* columns that have rows and no missing value).
C3_ErrorIffNotCoercible ==
    (/\ Validated /\ MissingRoles = {} /\ ret.kind = "return"
     /\ df.nrows > 0 /\ NullCount(df, response_col) = 0) =>
        (HasNonNumericLine <=>
            \E i \in DOMAIN Column(df, response_col) :
                ~Coercible(Column(df, response_col)[i]))

\* C3 amended: the non-numeric error is recorded exactly when the dtype of
\* the response column is not numeric; so it is recorded whenever some value
\* is not coercible, and also for an object column of numbers held as text.
C3_ErrorIffDtypeNotNumeric ==
    (Validated /\ MissingRoles = {} /\ ret.kind = "return") =>
        /\ HasNonNumericLine <=> ~ResponseDtypeNumeric
        /\ (\E i \in DOMAIN Column(df, response_col) :
               ~Coercible(Column(df, response_col)[i])) => HasNonNumericLine

\* a response column of numbers held as text is reported as non-numeric
C3_Witness ==
    /\ Validated
    /\ treatment_col = "G" /\ rep_col = "B" /\ response_col = "Y"
    /\ MissingRoles = {}
    /\ df.nrows = 2
    /\ Column(df, "Y") = <<Txt(1), Txt(1)>>
    /\ ret = Return(<<FALSE, <<NonNumericLine("Y")>> >>)

\* C4: the validator never raises, whatever the table and the field names,
\* tables with repeated column labels included.
C4_NeverRaises == Validated => ret.kind = "return"

(***************************************************************************)
(* Properties of get_design_info.                                          *)
(***************************************************************************)
Inspected ==
    /\ called = "get_design_info"
    /\ HasColumn(df, treatment_col) /\ HasColumn(df, rep_col)

\* the distinct labels present in a column
Present(col) == Range(Column(df, col)) \ {NULL}

\* the rows of the <<treatment, block>> pair
RowsOf(g, b) ==
    {i \in 1..df.nrows : Column(df, treatment_col)[i] = g /\ Column(df, rep_col)[i] = b}

\* the rows with a missing treatment or block
UnlabelledRows ==
    {i \in 1..df.nrows :
        Column(df, treatment_col)[i] = NULL \/ Column(df, rep_col)[i] = NULL}

\* C5: for every table whose two fields are columns, the empty table and
\* tables with T = 0 or R = 0 included, get_design_info returns a descriptor
\* with T and R the numbers of distinct labels, total_plots the row count,
\* expected_plots = T * R and is_balanced iff total_plots = T * R; on the
\* empty table T = R = N = 0 and is_balanced is true.
C5_DescriptorArithmetic ==
    Inspected =>
        /\ ret.kind = "return"
        /\ ret.value.num_treatments = Cardinality(Present(treatment_col))
        /\ ret.value.num_reps = Cardinality(Present(rep_col))
        /\ ret.value.total_plots = df.nrows
        /\ ret.value.expected_plots = ret.value.num_treatments * ret.value.num_reps
        /\ ret.value.is_balanced
             <=> (ret.value.total_plots = ret.value.num_treatments * ret.value.num_reps)
        /\ df.nrows = 0 =>
             ret.value = [num_treatments |-> 0, num_reps |-> 0, total_plots |-> 0,
                          expected_plots |-> 0, is_balanced |-> TRUE]

\* a table of two rows without any treatment label: T = 0, R = 2, not balanced
C5_Witness ==
    /\ Inspected
    /\ treatment_col = "G" /\ rep_col = "B"
    /\ df.nrows = 2
    /\ ret = Return([num_treatments |-> 0, num_reps |-> 2, total_plots |-> 2,
                     expected_plots |-> 0, is_balanced |-> FALSE])

\* exactly one row for every pair of a present treatment and a present block,
\* and no row without a treatment or a block
OneRowPerPair ==
    /\ UnlabelledRows = {}
    /\ \A g \in Present(treatment_col), b \in Present(rep_col) :
          Cardinality(RowsOf(g, b)) = 1

\* C6: is_balanced is true exactly when the table has exactly one row for
\* every (treatment, block) pair of the treatments and blocks present; a
\* table with a duplicated and a missing cell, or with a row whose treatment
\* or block is missing, is never reported balanced.
\* (Read here on tables in which every row has both labels.)
C6_BalancedIffOneRowPerPair ==
    (Inspected /\ treatment_col = "G" /\ rep_col = "B" /\ UnlabelledRows = {}) =>
        (ret.value.is_balanced <=> OneRowPerPair)

\* at most one row per pair of labels (a missing label counted as a label)
AtMostOneRowPerPair ==
    \A i, j \in 1..df.nrows :
        (/\ Column(df, treatment_col)[i] = Column(df, treatment_col)[j]
         /\ Column(df, rep_col)[i] = Column(df, rep_col)[j]) => i = j

SomePairMissing ==
    \E g \in Present(treatment_col), b \in Present(rep_col) : RowsOf(g, b) = {}

\* C7: a table with at most one row per (treatment, block) pair in which
\* some pair of a present treatment and a present block has no row is
\* reported with is_balanced = false and expected_plots > total_plots.
C7_MissingCellUnbalanced ==
    (/\ Inspected /\ treatment_col = "G" /\ rep_col = "B"
     /\ AtMostOneRowPerPair /\ SomePairMissing) =>
        /\ ~ret.value.is_balanced
        /\ ret.value.expected_plots > ret.value.total_plots

(***************************************************************************)
(* Properties of run_rcbd_anova and run_crd_anova.                         *)
(***************************************************************************)
Analysed == called = "run_rcbd_anova" /\ ret.kind = "return"

NumTreatments == Cardinality(Present(treatment_col))
NumBlocks == Cardinality(Present(rep_col))

\* rows i and j share a treatment or a block
Adjacent(i, j) ==
    \/ Column(df, treatment_col)[i] = Column(df, treatment_col)[j]
    \/ Column(df, rep_col)[i] = Column(df, rep_col)[j]

RECURSIVE ReachableFrom(_)
\* the rows joined to the rows S by a chain of shared treatments and blocks
ReachableFrom(S) ==
    LET more == S \cup {j \in 1..df.nrows : \E i \in S : Adjacent(i, j)}
    IN IF more = S THEN S ELSE ReachableFrom(more)

\* the number of connected parts of the design; the design matrix of
\* intercept, treatments and blocks has rank T + R - DesignParts
DesignParts == Cardinality({ReachableFrom({i}) : i \in 1..df.nrows})

DfOf(row) == ret.value.anova_table[row].df

\* C8 as stated: run_rcbd_anova reports Treatment df = T-1, Block df = R-1,
\* Residual df = N-T-R+1, Total df = N-1 and num_treatments = T; on a
\* balanced table Residual df = (T-1)(R-1).
C8_DegreesOfFreedomAsStated ==
    Analysed =>
        /\ DfOf(1) = NumTreatments - 1
        /\ DfOf(2) = NumBlocks - 1
        /\ DfOf(3) = df.nrows - NumTreatments - NumBlocks + 1
        /\ DfOf(4) = df.nrows - 1
        /\ ret.value.num_treatments = NumTreatments
        /\ OneRowPerPair => DfOf(3) = (NumTreatments - 1) * (NumBlocks - 1)

\* What the analysis does report whenever it returns: Treatment df = T-1,
\* Block df = R-1, num_treatments = T, Residual df = N minus the rank of the
\* design matrix (T + R - the number of connected parts of the design) and
\* Total df the sum of the three; Residual df = N-T-R+1 and Total df = N-1
\* exactly when the design is connected, which every balanced table is.
DegreesOfFreedomByRank ==
    Analysed =>
        LET T == NumTreatments
            R == NumBlocks
            parts == DesignParts
            balanced == OneRowPerPair
        IN /\ DfOf(1) = T - 1
           /\ DfOf(2) = R - 1
           /\ ret.value.num_treatments = T
           /\ DfOf(3) = df.nrows - (T + R - parts)
           /\ ret.value.residual_df = DfOf(3)
           /\ DfOf(4) = DfOf(1) + DfOf(2) + DfOf(3)
           /\ (parts = 1) <=>
                 (DfOf(3) = df.nrows - T - R + 1 /\ DfOf(4) = df.nrows - 1)
           /\ balanced => (parts = 1 /\ DfOf(3) = (T - 1) * (R - 1))
           /\ (balanced /\ T = 2 /\ R = 2) =>
                 (DfOf(1) = 1 /\ DfOf(2) = 1 /\ DfOf(3) = 1)

RECURSIVE SquaredDeviations(_)
\* the sum over rows 1..n of (N * response - sum of the responses)^2, that is
\* N^2 times the sum of the (response - grand_mean)^2
SquaredDeviations(n) ==
    LET y == [i \in 1..df.nrows |-> Column(df, response_col)[i][2]]
        RECURSIVE Sum(_)
        Sum(k) == IF k = 0 THEN 0 ELSE y[k] + Sum(k - 1)
        dev == df.nrows * y[n] - Sum(df.nrows)
    IN IF n = 0 THEN 0 ELSE dev * dev + SquaredDeviations(n - 1)

SsOf(row) == ret.value.anova_table[row].sum_sq

Tested == called \in {"run_rcbd_anova", "run_crd_anova"} /\ ret.kind = "return"

\* C10: in the result of run_rcbd_anova and of run_crd_anova is_significant
\* is true exactly when p_treatment < alpha; it is false when p_treatment
\* equals alpha, and the alpha field is the alpha passed in.
C10_SignificantIffBelowAlpha ==
    Tested =>
        /\ ret.value.is_significant
             <=> (ret.value.p_treatment[1] * alpha[2] < alpha[1] * ret.value.p_treatment[2])
        /\ ret.value.p_treatment = alpha => ~ret.value.is_significant
        /\ ret.value.alpha = alpha

\* run_rcbd_anova at alpha = 0.10 on a table whose p-value is exactly 0.10,
\* reported as not significant
C10_Witness ==
    /\ Tested
    /\ called = "run_rcbd_anova"
    /\ alpha = <<1, 10>>
    /\ ret.value.p_treatment = alpha
    /\ ~ret.value.is_significant

(***************************************************************************)
(* Properties of get_cv_quality.                                           *)
(***************************************************************************)
Classified == called = "get_cv_quality"

\* the CV c is a number below k percent
CvBelow(c, k) ==
    \/ c.kind = "inf" /\ c.sign < 0
    \/ c.kind = "num" /\ (c.sign <= 0 \/ c.sq[1] < k * k * c.sq[2])

\* the CV c is a number or an infinity, at least k percent
CvAtLeast(c, k) == c.kind # "nan" /\ ~CvBelow(c, k)

QualityRank(label) ==
    CASE label = "Excellent" -> 1
      [] label = "Good" -> 2
      [] label = "Acceptable" -> 3
      [] label = "Poor" -> 4

LsdCalled == called = "calculate_lsd"

\* a number or +infinity that is not below zero
NonNegative(x) == x.kind # "nan" /\ x.sign >= 0

ValidLsdArguments ==
    /\ mse_arg[1] >= 0
    /\ num_reps_arg >= 1
    /\ 0 < alpha[1] /\ alpha[1] < alpha[2]

\* C12 as stated: for MSE >= 0, R >= 1 and alpha in (0,1) the SE_diff and
\* the LSD are non-negative, in run_rcbd_anova and in calculate_lsd.
C12_LsdNonNegativeAsStated ==
    /\ (LsdCalled /\ ValidLsdArguments) =>
          (ret.kind = "return" /\ NonNegative(ret.value))
    /\ Analysed => (NonNegative(ret.value.se_diff) /\ NonNegative(ret.value.lsd))

\* C12 amended: for MSE >= 0, R >= 1, alpha in (0,1) and residual_df >= 1
\* the SE_diff and the LSD are non-negative, in calculate_lsd and in every
\* result of run_rcbd_anova; with residual_df <= 0 calculate_lsd returns NaN.
C12_LsdNonNegativeWithResidualDf ==
    /\ (LsdCalled /\ ValidLsdArguments) =>
          /\ ret.kind = "return"
          /\ residual_df_arg >= 1 => NonNegative(ret.value)
          /\ residual_df_arg <= 0 => ret.value.kind = "nan"
    /\ Analysed =>
          /\ ret.value.residual_df >= 1
          /\ NonNegative(ret.value.se_diff)
          /\ NonNegative(ret.value.lsd)

\* calculate_lsd with a positive mean square and two residual degrees of
\* freedom: a positive LSD
C12_Witness ==
    /\ LsdCalled /\ ValidLsdArguments
    /\ mse_arg[1] > 0 /\ residual_df_arg = 2
    /\ ret.value.kind = "num" /\ ret.value.sign = 1

(***************************************************************************)
(* Properties of the field names.                                          *)
(***************************************************************************)
\* the field names the call was given
AskedFields ==
    CASE called = "run_rcbd_anova" -> {treatment_col, rep_col, response_col}
      [] called = "run_crd_anova" -> {treatment_col, response_col}
      [] called = "get_design_info" -> {treatment_col, rep_col}
      [] called = "get_summary_stats" -> {response_col, treatment_col}
      [] OTHER -> {}

AbsentFields == {c \in AskedFields : ~HasColumn(df, c)}

\* the call raised before any model was fitted
RaisedBeforeFit ==
    ret.kind = "raise" /\ ret.value.at \in {"columns", "formula"}

\* C13: run_rcbd_anova fails with an error before fitting any model, and
\* returns nothing, if and only if one of the three field names is no column
\* of the table.
C13_FailsBeforeFitIffAbsent ==
    called = "run_rcbd_anova" => (RaisedBeforeFit <=> AbsentFields # {})

\* C14: when run_rcbd_anova, run_crd_anova, get_design_info or
\* get_summary_stats is given a field name that is no column of the table,
\* the call raises an error that carries an offending field name.
C14_ErrorCarriesFieldNames ==
    AbsentFields # {} =>
        (ret.kind = "raise" /\ ret.value.names \cap AbsentFields # {})

(***************************************************************************)
(* Properties of the caller's table.                                       *)
(***************************************************************************)
\* C15: no engine operation changes the table it is given: over any
\* sequence of calls of validate_rcbd_data, get_design_info,
\* get_summary_stats, clean_data, run_rcbd_anova and run_crd_anova, returning
\* or raising, the caller's table keeps its rows, columns and values.
C15_TableNeverMutated == [][df' = df]_vars

\* clean_data has returned a table with fewer rows than the caller's table,
\* which still has all of its rows
C15_Witness ==
    /\ called = "clean_data"
    /\ ret.kind = "return"
    /\ ret.value.nrows < df.nrows
    /\ df.nrows = 4

(***************************************************************************)
(* Properties of the grand mean.                                           *)
(***************************************************************************)
\* the rows the fit uses: those with a treatment, a block and a response
RowsUsed ==
    {i \in 1..df.nrows :
        /\ Column(df, treatment_col)[i] # NULL
        /\ Column(df, rep_col)[i] # NULL
        /\ Column(df, response_col)[i] # NULL}

RECURSIVE SumOfResponses(_)
SumOfResponses(rows) ==
    IF rows = {} THEN 0
    ELSE LET i == CHOOSE i \in rows : TRUE
         IN Column(df, response_col)[i][2] + SumOfResponses(rows \ {i})

\* the orders in which the rows of the table can be given
RowOrders ==
    {order \in [1..df.nrows -> 1..df.nrows] :
        \A i, j \in 1..df.nrows : order[i] = order[j] => i = j}

\* C16: the grand_mean run_rcbd_anova reports is the arithmetic mean of the
\* responses of exactly the rows used in the analysis, and the same for
\* every order of the rows of the table.
C16_GrandMeanOfRowsUsed ==
    Analysed =>
        /\ ret.value.grand_mean[1] * Cardinality(RowsUsed)
             = SumOfResponses(RowsUsed) * ret.value.grand_mean[2]
        /\ \A order \in RowOrders :
              GrandMean(TakeRows(df, order), response_col) = ret.value.grand_mean

(***************************************************************************)
(* Properties of degenerate designs.                                       *)
(***************************************************************************)
Degenerate ==
    /\ called = "run_rcbd_anova"
    /\ NumTreatments < 2 \/ NumBlocks < 2

Undefined == {NaN, Inf(1), Inf(-1)}

\* C17 as stated: for a design with fewer than 2 treatments or fewer than 2
\* blocks run_rcbd_anova raises nothing and reports every statistic that
\* divides by a zero df (mean squares, CV, LSD) as NaN or infinite, none as
\* an ordinary number.
C17_DegenerateReportsUndefined ==
    Degenerate =>
        /\ ret.kind = "return"
        /\ \A k \in 1..4 :
              DfOf(k) = 0 => ret.value.anova_table[k].mean_sq \in Undefined
        /\ DfOf(3) = 0 => (ret.value.cv \in Undefined /\ ret.value.lsd \in Undefined)

\* C17 amended: for a design with fewer than 2 treatments or fewer than 2
\* blocks run_rcbd_anova applies one policy: it raises and reports nothing.
C17_DegenerateRaises == Degenerate => ret.kind = "raise"

\* one treatment in two blocks: the call raised
C17_Witness ==
    /\ Degenerate
    /\ NumTreatments = 1 /\ NumBlocks = 2
    /\ ret.kind = "raise" /\ ret.value.at = "anova"

(***************************************************************************)
(* Properties of run_crd_anova.                                            *)
(***************************************************************************)
CrdAnalysed == called = "run_crd_anova" /\ ret.kind = "return"

\* C18: the result of run_crd_anova reports df_treatment = T-1 and
\* df_residual = N-T and provides the derived quantities of the RCBD result:
\* CV, grand mean, treatment means, MSE, SE_diff, LSD and residual_df.
C18_CrdProvidesRcbdQuantities ==
    CrdAnalysed =>
        /\ ret.value.anova_table[2].df = NumTreatments - 1
        /\ ret.value.anova_table[3].df = df.nrows - NumTreatments
        /\ {"cv", "grand_mean", "treatment_means", "mse",
            "se_diff", "lsd", "residual_df"} \subseteq DOMAIN ret.value

(***************************************************************************)
(* Properties of the application.                                          *)
(***************************************************************************)
\* validate_rcbd_data accepts the table and the columns of the latest call
PassesValidator ==
    LET validated == validate_rcbd_data(df, treatment_col, rep_col, response_col)
    IN validated.kind = "return" /\ validated.value[1]

\* C19: in every run of the application run_rcbd_anova is invoked only with
\* a table and three column names for which validate_rcbd_data returns
\* ok = true on that same table: every analysed table has passed the
\* validator.
C19_AnalysedTablePassedValidator ==
    called = "run_rcbd_anova" => PassesValidator

\* the results run_rcbd_anova returns for the table and the columns the
\* session stores now, at some alpha of the slider
ResultsOfSession ==
    IF session.df = <<>> THEN {}
    ELSE UNION {run_rcbd_anova(session.df[1], session.treatment_col,
                               session.replication_col, session.response_col, a) :
                   a \in SliderValues}

\* C20: in every reachable state of the session a non-empty anova_results
\* was computed from the table the session stores now and from the columns
\* it stores now; no result of an earlier table or column choice is left to
\* be shown in the sidebar or on the visualization page.
C20_ResultOfStoredTableAndColumns ==
    session.anova_results # <<>> =>
        Return(session.anova_results[1]) \in ResultsOfSession

\* the latest interaction was a click on the run button
RunClicked == called = "run_rcbd_anova"

\* a click on the run button whose call raised leaves the session as it was
RaiseKeepsSession ==
    (called' = "run_rcbd_anova" /\ ret'.kind = "raise") => session' = session

\* anova_results changes only in a click on the run button whose call
\* returned, and then to the value returned
OnlyReturnedRunStores ==
    session'.anova_results # session.anova_results =>
        /\ called' = "run_rcbd_anova"
        /\ ret'.kind = "return"
        /\ session'.anova_results = <<ret'.value>>

\* C21: when run_rcbd_anova raises during a click on the run button,
\* anova_results keeps the value it had before the click and the session's
\* table and columns are unchanged; anova_results becomes non-empty only
\* through a run that returned a result; the visualization page draws
\* charts only when anova_results is non-empty.
C21_RaisedRunKeepsSession ==
    /\ [][RaiseKeepsSession /\ OnlyReturnedRunStores]_vars
    /\ [](shown = "charts" => session.anova_results # <<>>)

\* a run that raised while the session held the result of an earlier run
C21_Witness ==
    /\ RunClicked
    /\ ret.kind = "raise"
    /\ session.anova_results # <<>>

====
